---------------------------- MODULE Spec2Model ----------------------------
(***************************************************************************)
(* A model of the todo_list terminal application (src/src/main.rs):        *)
(* StatefulList (the cursor over the items), the Mode state machine of     *)
(* run_app's key dispatch, run_app's render/poll/read/tick loop and main's *)
(* terminal setup and teardown.                                            *)
(*                                                                         *)
(* Spec      the whole program, from main's first statement.               *)
(* SpecList  StatefulList alone: with_items on any short list, then any    *)
(*           sequence of next / previous / unselect calls.                 *)
(***************************************************************************)
EXTENDS Integers, Sequences, FiniteSets, TLC

VARIABLES
    app,        \* AppState: [list |-> [list_state, items], mode]
    pc,         \* the statement of main / run_app that runs next
    last,       \* the key (or list call) handled last, and app before it
    elapsed,    \* last_tick.elapsed(), in ms
    timeout,    \* the Duration last handed to event::poll, in ms
    frame,      \* what ui() drew last
    term,       \* the terminal surface: raw mode, alternate screen, ...
    result,     \* run_app's return value, once it has returned
    exit,       \* main's return value, once it has returned
    io_error,   \* the terminal operation that returned Err last, if any did
    keys,       \* history: the key codes dispatched so far, while they follow RoundTrip
    edit        \* history: the items when Update mode was entered, and the characters typed since

vars == <<app, pc, last, elapsed, timeout, frame, term, result, exit, io_error, keys, edit>>

----------------------------------------------------------------------------
(* Bounds of the model *)

\* Characters appended to items over one run.
MaxPush == 2

\* The longest list SpecList constructs.
MaxLen == 3

\* A draw or a poll takes 0..MaxDelay half ticks.
MaxDelay == 3

\* usize is modelled UsizeBits wide (64 in the build).
UsizeBits == 3

----------------------------------------------------------------------------
(* Values *)

\* Option<usize>
None == <<>>
Some(i) == <<i>>

Ok == <<"Ok">>
Err(e) == <<"Err", e>>
Pending == <<"Pending">>

\* main: Duration::from_millis(250)
TickRate == 250

USIZE_MAX == 2^UsizeBits - 1

\* main: the three seed strings
s1 == <<"B", "e", " ", "a", " ", "g", "a", "n", "g", "s", "t", "e", "r">>
s2 == <<"F", "i", "n", "i", "s", "h", " ", "a", " ", "p", "r", "o", "j", "e", "c", "t">>
s3 == <<"B", "e", " ", "a", " ", "c", "o", "d", "e", "r">>
list_vector == <<s1, s2, s3>>

\* KeyCode
Char(c) == <<"Char", c>>
Left == <<"Left">>
Right == <<"Right">>
Down == <<"Down">>
Up == <<"Up">>
Enter == <<"Enter">>
Backspace == <<"Backspace">>

Chars == {"q", "a", "e", "!"}
KeyCodes == {Char(c) : c \in Chars} \cup {Left, Right, Down, Up, Enter, Backspace}

\* Event: a key event, or one that is not (mouse capture is on)
Key(k) == <<"Key", k>>
Mouse == <<"Mouse">>
Events == {Key(k) : k \in KeyCodes} \cup {Mouse}

----------------------------------------------------------------------------
(* StatefulList *)

with_items(items) == [list_state |-> None, items |-> items]

\* a - b in usize, as the release build computes it
wrapping_sub(a, b) == (a - b) % (USIZE_MAX + 1)

\* Mutant: the cursor always advances, with no wrap to index 0.
next_no_wrap(self) ==
    LET sel == self.list_state
    IN  [self EXCEPT !.list_state = Some(IF sel # None THEN sel[1] + 1 ELSE 0)]

\* Mutant: the first call selects index 1.
next_first_is_one(self) ==
    LET sel == self.list_state
        i == IF sel # None
             THEN IF sel[1] >= wrapping_sub(Len(self.items), 1)
                  THEN 0
                  ELSE sel[1] + 1
             ELSE 1 % (Len(self.items) + 1)
    IN  [self EXCEPT !.list_state = Some(i)]

next(self) ==
    LET sel == self.list_state
        i == IF sel # None
             THEN IF sel[1] >= wrapping_sub(Len(self.items), 1)
                  THEN 0
                  ELSE sel[1] + 1
             ELSE 0
    IN  [self EXCEPT !.list_state = Some(i)]

\* items.len() - 1 is evaluated, and underflows
next_overflows(self) ==
    self.list_state # None /\ Len(self.items) < 1

\* Mutant: the cursor stops at index 0 instead of wrapping to the last index.
previous_saturates(self) ==
    LET sel == self.list_state
        i == IF sel # None
             THEN IF sel[1] = 0 THEN 0 ELSE sel[1] - 1
             ELSE 0
    IN  [self EXCEPT !.list_state = Some(i)]

previous(self) ==
    LET sel == self.list_state
        i == IF sel # None
             THEN IF sel[1] = 0
                  THEN wrapping_sub(Len(self.items), 1)
                  ELSE sel[1] - 1
             ELSE 0
    IN  [self EXCEPT !.list_state = Some(i)]

previous_overflows(self) ==
    self.list_state = Some(0) /\ Len(self.items) < 1

\* Mutant: the cursor goes back to the first item instead of being cleared.
unselect_to_first(self) == [self EXCEPT !.list_state = Some(0)]

unselect(self) == [self EXCEPT !.list_state = None]

----------------------------------------------------------------------------
(* AppState *)

AppState_new(items) == [list |-> with_items(items), mode |-> "Normal"]

\* Characters pushed onto the items so far.
RECURSIVE TotalLen(_)
TotalLen(items) ==
    IF items = <<>> THEN 0 ELSE Len(Head(items)) + TotalLen(Tail(items))

Pushed(a) == TotalLen(a.list.items) - TotalLen(list_vector)

----------------------------------------------------------------------------
(* run_app: the match on app.mode and key.code.                            *)
(* flow: "continue" (fall out of the match), "return" (return Ok(())),     *)
(* "panic", or "overflow" (a usize subtraction underflowed: a panic in a   *)
(* build with overflow checks, the wrapped value in one without).          *)

\* Mutant: the character goes onto the first item, wherever the cursor is.
push_char_first(a, c) ==
    LET sel == a.list.list_state
    IN  IF sel = None \/ sel[1] >= Len(a.list.items)
        THEN [app |-> a, flow |-> "panic"]
        ELSE [app |-> [a EXCEPT !.list.items[1] = Append(@, c)],
              flow |-> "continue"]

\* Mutant: the character goes in front of the item's text.
push_char_front(a, c) ==
    LET sel == a.list.list_state
    IN  IF sel = None \/ sel[1] >= Len(a.list.items)
        THEN [app |-> a, flow |-> "panic"]
        ELSE [app |-> [a EXCEPT !.list.items[sel[1] + 1] = <<c>> \o @],
              flow |-> "continue"]

push_char(a, c) ==
    LET sel == a.list.list_state
    IN  IF sel = None \/ sel[1] >= Len(a.list.items)
        THEN [app |-> a, flow |-> "panic"]
        ELSE [app |-> [a EXCEPT !.list.items[sel[1] + 1] = Append(@, c)],
              flow |-> "continue"]

\* Mutant: Backspace removes the last character of the selected item.
update_key_backspace_pops(a, code) ==
    LET sel == a.list.list_state
    IN  IF code[1] = "Char" THEN push_char(a, code[2])
        ELSE IF code = Backspace /\ sel # None
        THEN [app |-> [a EXCEPT !.list.items[sel[1] + 1] = SubSeq(@, 1, Len(@) - 1)],
              flow |-> "continue"]
        ELSE IF code = Enter THEN [app |-> [a EXCEPT !.mode = "Normal"], flow |-> "continue"]
        ELSE [app |-> a, flow |-> "continue"]

\* Mutant: Down moves the cursor in Update mode too.
update_key_down_moves(a, code) ==
    IF code[1] = "Char" THEN push_char(a, code[2])
    ELSE IF code = Down THEN [app |-> [a EXCEPT !.list = next(@)], flow |-> "continue"]
    ELSE IF code = Enter THEN [app |-> [a EXCEPT !.mode = "Normal"], flow |-> "continue"]
    ELSE [app |-> a, flow |-> "continue"]

\* Mutant: Enter also clears the cursor.
update_key_enter_unselects(a, code) ==
    IF code[1] = "Char" THEN push_char(a, code[2])
    ELSE IF code = Enter
    THEN [app |-> [a EXCEPT !.mode = "Normal", !.list.list_state = None],
          flow |-> "continue"]
    ELSE [app |-> a, flow |-> "continue"]

update_key(a, code) ==
    IF code[1] = "Char" THEN push_char(a, code[2])
    ELSE IF code = Backspace THEN [app |-> a, flow |-> "continue"]
    ELSE IF code = Enter THEN [app |-> [a EXCEPT !.mode = "Normal"], flow |-> "continue"]
    ELSE [app |-> a, flow |-> "continue"]

\* Mutant: Backspace in Normal mode enters Delete mode.
normal_key_backspace_deletes(a, code) ==
    IF code = Char("q") THEN [app |-> a, flow |-> "return"]
    ELSE IF code = Left THEN [app |-> [a EXCEPT !.list = unselect(@)], flow |-> "continue"]
    ELSE IF code = Down
    THEN [app |-> [a EXCEPT !.list = next(@)],
          flow |-> IF next_overflows(a.list) THEN "overflow" ELSE "continue"]
    ELSE IF code = Up
    THEN [app |-> [a EXCEPT !.list = previous(@)],
          flow |-> IF previous_overflows(a.list) THEN "overflow" ELSE "continue"]
    ELSE IF code = Char("a") THEN [app |-> [a EXCEPT !.mode = "Add"], flow |-> "continue"]
    ELSE IF code = Char("e") THEN [app |-> [a EXCEPT !.mode = "Update"], flow |-> "continue"]
    ELSE IF code = Backspace THEN [app |-> [a EXCEPT !.mode = "Delete"], flow |-> "continue"]
    ELSE [app |-> a, flow |-> "continue"]

\* Mutant: 'e' enters Add mode, as 'a' does.
normal_key_e_adds(a, code) ==
    IF code = Char("q") THEN [app |-> a, flow |-> "return"]
    ELSE IF code = Left THEN [app |-> [a EXCEPT !.list = unselect(@)], flow |-> "continue"]
    ELSE IF code = Down
    THEN [app |-> [a EXCEPT !.list = next(@)],
          flow |-> IF next_overflows(a.list) THEN "overflow" ELSE "continue"]
    ELSE IF code = Up
    THEN [app |-> [a EXCEPT !.list = previous(@)],
          flow |-> IF previous_overflows(a.list) THEN "overflow" ELSE "continue"]
    ELSE IF code = Char("a") \/ code = Char("e")
    THEN [app |-> [a EXCEPT !.mode = "Add"], flow |-> "continue"]
    ELSE [app |-> a, flow |-> "continue"]

normal_key(a, code) ==
    IF code = Char("q") THEN [app |-> a, flow |-> "return"]
    ELSE IF code = Left THEN [app |-> [a EXCEPT !.list = unselect(@)], flow |-> "continue"]
    ELSE IF code = Down
    THEN [app |-> [a EXCEPT !.list = next(@)],
          flow |-> IF next_overflows(a.list) THEN "overflow" ELSE "continue"]
    ELSE IF code = Up
    THEN [app |-> [a EXCEPT !.list = previous(@)],
          flow |-> IF previous_overflows(a.list) THEN "overflow" ELSE "continue"]
    ELSE IF code = Char("a") THEN [app |-> [a EXCEPT !.mode = "Add"], flow |-> "continue"]
    ELSE IF code = Char("e") THEN [app |-> [a EXCEPT !.mode = "Update"], flow |-> "continue"]
    ELSE [app |-> a, flow |-> "continue"]

\* Mutant: Add mode handles 'q' as Normal mode does.
add_key_quits(a, code) ==
    IF code = Char("q") THEN [app |-> a, flow |-> "return"]
    ELSE [app |-> a, flow |-> "continue"]

add_key(a, code) == [app |-> a, flow |-> "continue"]

delete_key(a, code) == [app |-> a, flow |-> "continue"]

handle_key(a, code) ==
    CASE a.mode = "Update" -> update_key(a, code)
      [] a.mode = "Add"    -> add_key(a, code)
      [] a.mode = "Normal" -> normal_key(a, code)
      [] a.mode = "Delete" -> delete_key(a, code)

\* Whether a step with this flow panics: decided by the code, or by the build.
Panics(flow) ==
    IF flow = "panic" THEN {TRUE}
    ELSE IF flow = "overflow" THEN BOOLEAN
    ELSE {FALSE}

----------------------------------------------------------------------------
(* ui *)

ui(a) ==
    [list |-> a.list,
     mode |-> a.mode,
     set_cursor |-> IF a.mode = "Add" THEN Some(<<0, 0>>) ELSE None]

NoFrame == <<>>

\* Mutant: the subtraction is not clamped at zero.
poll_timeout_unclamped(e) == TickRate - e

\* tick_rate.checked_sub(e).unwrap_or_else(|| Duration::from_secs(0))
poll_timeout(e) == IF TickRate >= e THEN TickRate - e ELSE 0

Delays == {k * (TickRate \div 2) : k \in 0..MaxDelay}

----------------------------------------------------------------------------
(* State *)

NoDispatch == [event |-> <<"None">>, before |-> <<>>]

\* The key codes of the round trip: select the second item, edit it, type
\* "!", leave the edit.
RoundTrip == <<Down, Down, Char("e"), Char("!"), Enter>>

OffScript == <<<<"Off">>>>

\* keys after one more key code: the longer prefix of RoundTrip, or OffScript
\* from the first key code that leaves it.
Follow(k, code) ==
    IF /\ k # OffScript
       /\ Len(k) < Len(RoundTrip)
       /\ RoundTrip[Len(k) + 1] = code
    THEN Append(k, code)
    ELSE OffScript

NoEdit == [items |-> <<>>, typed |-> <<>>]

\* edit after a key code was handled: a step from Normal into Update mode
\* opens an edit, a character key in Update mode is typed into it.
Edited(e, before, code, after) ==
    IF before.mode = "Normal" /\ after.mode = "Update"
    THEN [items |-> before.list.items, typed |-> <<>>]
    ELSE IF before.mode = "Update" /\ code[1] = "Char"
    THEN [e EXCEPT !.typed = Append(@, code[2])]
    ELSE e

\* The terminal surface, and the restore steps main has run on it so far.
Term(raw, alt, mouse, hidden) ==
    [raw_mode |-> raw, alternate_screen |-> alt, mouse_capture |-> mouse,
     cursor_hidden |-> hidden, restored |-> {}]

Init ==
    /\ app = AppState_new(list_vector)
    /\ pc = "enable_raw_mode"
    /\ last = NoDispatch
    /\ elapsed = 0
    /\ timeout = 0
    /\ frame = NoFrame
    /\ term = Term(FALSE, FALSE, FALSE, FALSE)
    /\ result = Pending
    /\ exit = Pending
    /\ io_error = None
    /\ keys = <<>>
    /\ edit = NoEdit

----------------------------------------------------------------------------
(* main: setup *)

\* An Err leaves main through `?`.
Exit(r) ==
    /\ pc' = "exit"
    /\ exit' = r

enable_raw_mode ==
    /\ pc = "enable_raw_mode"
    /\ \E ok \in BOOLEAN :
        IF ok
        THEN /\ term' = [term EXCEPT !.raw_mode = TRUE]
             /\ pc' = "enter_alternate_screen"
             /\ UNCHANGED <<exit, io_error>>
        ELSE /\ Exit(Err("enable_raw_mode"))
             /\ io_error' = Some("enable_raw_mode")
             /\ UNCHANGED term
    /\ UNCHANGED <<app, last, elapsed, timeout, frame, result, keys, edit>>

enter_alternate_screen ==
    /\ pc = "enter_alternate_screen"
    /\ \E ok \in BOOLEAN :
        IF ok
        THEN /\ term' = [term EXCEPT !.alternate_screen = TRUE, !.mouse_capture = TRUE]
             /\ pc' = "terminal_new"
             /\ UNCHANGED <<exit, io_error>>
        ELSE /\ Exit(Err("enter_alternate_screen"))
             /\ io_error' = Some("enter_alternate_screen")
             /\ UNCHANGED term
    /\ UNCHANGED <<app, last, elapsed, timeout, frame, result, keys, edit>>

\* Terminal::new, then the seed list, AppState::new and run_app's entry.
terminal_new ==
    /\ pc = "terminal_new"
    /\ \E ok \in BOOLEAN :
        IF ok
        THEN /\ pc' = "draw"
             /\ UNCHANGED <<exit, io_error>>
        ELSE /\ Exit(Err("terminal_new"))
             /\ io_error' = Some("terminal_new")
    /\ elapsed' = 0
    /\ UNCHANGED <<app, last, timeout, frame, term, result, keys, edit>>

----------------------------------------------------------------------------
(* run_app *)

\* run_app returns r to main, which goes on to restore the terminal.
Return(r) ==
    /\ pc' = "disable_raw_mode"
    /\ result' = r
    /\ UNCHANGED exit

\* Mutant: a failed draw is dropped and the loop goes on to the poll.
draw_ignores_error ==
    /\ pc = "draw"
    /\ \E ok \in BOOLEAN, d \in Delays :
        /\ IF ok
           THEN /\ frame' = ui(app)
                /\ term' = [term EXCEPT !.cursor_hidden = (ui(app).set_cursor = None)]
                /\ UNCHANGED io_error
           ELSE /\ io_error' = Some("draw")
                /\ UNCHANGED <<frame, term>>
        /\ elapsed' = elapsed + d
        /\ timeout' = poll_timeout(elapsed + d)
        /\ pc' = "poll"
        /\ UNCHANGED <<result, exit>>
    /\ UNCHANGED <<app, last, keys, edit>>

draw ==
    /\ pc = "draw"
    /\ \E ok \in BOOLEAN, d \in Delays :
        IF ok
        THEN /\ frame' = ui(app)
             /\ term' = [term EXCEPT !.cursor_hidden = (ui(app).set_cursor = None)]
             /\ elapsed' = elapsed + d
             /\ timeout' = poll_timeout(elapsed + d)
             /\ pc' = "poll"
             /\ UNCHANGED <<result, exit, io_error>>
        ELSE /\ d = 0
             /\ Return(Err("draw"))
             /\ io_error' = Some("draw")
             /\ UNCHANGED <<frame, term, elapsed, timeout>>
    /\ UNCHANGED <<app, last, keys, edit>>

\* event::poll(timeout): an event within the timeout, or none after all of it.
poll ==
    /\ pc = "poll"
    /\ \E r \in {"error", "true", "false"}, d \in Delays :
        CASE r = "error" ->
                /\ d = 0
                /\ Return(Err("poll"))
                /\ io_error' = Some("poll")
                /\ UNCHANGED elapsed
          [] r = "true" ->
                /\ d <= timeout
                /\ elapsed' = elapsed + d
                /\ pc' = "read"
                /\ UNCHANGED <<result, exit, io_error>>
          [] r = "false" ->
                /\ d = timeout
                /\ elapsed' = elapsed + d
                /\ pc' = "tick"
                /\ UNCHANGED <<result, exit, io_error>>
    /\ UNCHANGED <<app, last, timeout, frame, term, keys, edit>>

\* Key events the model still lets in: at most MaxPush characters are pushed.
Admitted(ev) ==
    (ev[1] = "Key" /\ ev[2][1] = "Char" /\ app.mode = "Update") => Pushed(app) < MaxPush

\* event::read()?, and the match on the event it returns.
read ==
    /\ pc = "read"
    /\ \E ok \in BOOLEAN, ev \in Events :
        IF ~ok
        THEN /\ ev = Mouse
             /\ Return(Err("read"))
             /\ io_error' = Some("read")
             /\ UNCHANGED <<app, last, keys, edit>>
        ELSE /\ Admitted(ev)
             /\ UNCHANGED io_error
             /\ IF ev[1] = "Key"
                THEN LET r == handle_key(app, ev[2])
                     IN  \E p \in Panics(r.flow) :
                          /\ last' = [event |-> ev, before |-> app]
                          /\ keys' = Follow(keys, ev[2])
                          /\ IF p
                             THEN /\ pc' = "panicked"
                                  /\ UNCHANGED <<app, result, exit, edit>>
                             ELSE /\ app' = r.app
                                  /\ edit' = Edited(edit, app, ev[2], r.app)
                                  /\ IF r.flow = "return"
                                     THEN Return(Ok)
                                     ELSE /\ pc' = "tick"
                                          /\ UNCHANGED <<result, exit>>
                ELSE /\ pc' = "tick"
                     /\ UNCHANGED <<app, last, result, exit, keys, edit>>
    /\ UNCHANGED <<elapsed, timeout, frame, term>>

\* Mutant: the frame is drawn again only when a tick has passed.
tick_draws_on_tick_only ==
    /\ pc = "tick"
    /\ elapsed' = IF elapsed >= TickRate THEN 0 ELSE elapsed
    /\ last' = NoDispatch
    /\ edit' = IF app.mode = "Update" THEN edit ELSE NoEdit
    /\ pc' = IF elapsed >= TickRate THEN "draw" ELSE "poll"
    /\ UNCHANGED <<app, timeout, frame, term, result, exit, io_error, keys>>

\* if last_tick.elapsed() >= tick_rate { last_tick = Instant::now() }
tick ==
    /\ pc = "tick"
    /\ elapsed' = IF elapsed >= TickRate THEN 0 ELSE elapsed
    /\ last' = NoDispatch
    /\ edit' = IF app.mode = "Update" THEN edit ELSE NoEdit
    /\ pc' = "draw"
    /\ UNCHANGED <<app, timeout, frame, term, result, exit, io_error, keys>>

----------------------------------------------------------------------------
(* main: restore terminal *)

disable_raw_mode ==
    /\ pc = "disable_raw_mode"
    /\ \E ok \in BOOLEAN :
        IF ok
        THEN /\ term' = [term EXCEPT !.raw_mode = FALSE,
                                     !.restored = @ \cup {"disable_raw_mode"}]
             /\ pc' = "leave_alternate_screen"
             /\ UNCHANGED <<exit, io_error>>
        ELSE /\ Exit(Err("disable_raw_mode"))
             /\ io_error' = Some("disable_raw_mode")
             /\ term' = [term EXCEPT !.restored = @ \cup {"disable_raw_mode"}]
    /\ UNCHANGED <<app, last, elapsed, timeout, frame, result, keys, edit>>

leave_alternate_screen ==
    /\ pc = "leave_alternate_screen"
    /\ \E ok \in BOOLEAN :
        IF ok
        THEN /\ term' = [term EXCEPT !.alternate_screen = FALSE, !.mouse_capture = FALSE,
                                     !.restored = @ \cup {"leave_alternate_screen"}]
             /\ pc' = "show_cursor"
             /\ UNCHANGED <<exit, io_error>>
        ELSE /\ Exit(Err("leave_alternate_screen"))
             /\ io_error' = Some("leave_alternate_screen")
             /\ term' = [term EXCEPT !.restored = @ \cup {"leave_alternate_screen"}]
    /\ UNCHANGED <<app, last, elapsed, timeout, frame, result, keys, edit>>

show_cursor ==
    /\ pc = "show_cursor"
    /\ \E ok \in BOOLEAN :
        IF ok
        THEN /\ term' = [term EXCEPT !.cursor_hidden = FALSE,
                                     !.restored = @ \cup {"show_cursor"}]
             /\ Exit(result)
             /\ UNCHANGED io_error
        ELSE /\ Exit(Err("show_cursor"))
             /\ io_error' = Some("show_cursor")
             /\ term' = [term EXCEPT !.restored = @ \cup {"show_cursor"}]
    /\ UNCHANGED <<app, last, elapsed, timeout, frame, result, keys, edit>>

----------------------------------------------------------------------------

Next ==
    \/ enable_raw_mode
    \/ enter_alternate_screen
    \/ terminal_new
    \/ draw
    \/ poll
    \/ read
    \/ tick
    \/ disable_raw_mode
    \/ leave_alternate_screen
    \/ show_cursor

Spec == Init /\ [][Next]_vars

----------------------------------------------------------------------------
(* SpecList: StatefulList on its own *)

ListItems == {<<"x">>, <<"y">>}

Lists == UNION {[1..n -> ListItems] : n \in 0..MaxLen}

InitList ==
    /\ \E items \in Lists : app = AppState_new(items)
    /\ pc = "list"
    /\ last = NoDispatch
    /\ elapsed = 0
    /\ timeout = 0
    /\ frame = NoFrame
    /\ term = Term(FALSE, FALSE, FALSE, FALSE)
    /\ result = Pending
    /\ exit = Pending
    /\ io_error = None
    /\ keys = <<>>
    /\ edit = NoEdit

\* One call of a StatefulList method: `after` is the list it leaves, unless
\* the call panics.
Call(name, after, overflows) ==
    /\ pc = "list"
    /\ \E p \in Panics(IF overflows THEN "overflow" ELSE "continue") :
        /\ last' = [event |-> <<name>>, before |-> app]
        /\ IF p
           THEN /\ pc' = "panicked"
                /\ UNCHANGED app
           ELSE /\ app' = [app EXCEPT !.list = after]
                /\ UNCHANGED pc
    /\ UNCHANGED <<elapsed, timeout, frame, term, result, exit, io_error, keys, edit>>

call_next == Call("next", next(app.list), next_overflows(app.list))

call_previous == Call("previous", previous(app.list), previous_overflows(app.list))

call_unselect == Call("unselect", unselect(app.list), FALSE)

NextList ==
    \/ call_next
    \/ call_previous
    \/ call_unselect

SpecList == InitList /\ [][NextList]_vars

----------------------------------------------------------------------------
(* Properties.  Spec and SpecList record in `last` the key (or list call)  *)
(* handled last and app as it was before it, so each property below reads  *)
(* the state before and the state after one dispatch.                      *)

Cursor == app.list.list_state
Items == app.list.items

\* A key event with this code was dispatched in mode m, and run_app went on.
Dispatched(code, m) ==
    /\ last.event = Key(code)
    /\ last.before.mode = m

\* C1: whenever the mode is Update an item is selected, and dispatching a
\* key never fails for want of one (the process never panics).
C1_UpdateHasCursor ==
    /\ app.mode = "Update" => Cursor # None
    /\ pc # "panicked"

\* C2: the cursor is unset or an index i with 0 <= i < N, N the number of
\* items.
C2_CursorInRange ==
    Cursor = None \/ (Cursor[1] >= 0 /\ Cursor[1] < Len(Items))

\* C2 witness: Down at the last index has wrapped the cursor to index 0.
C2_Witness ==
    /\ Dispatched(Down, "Normal")
    /\ last.before.list.list_state = Some(Len(Items) - 1)
    /\ Cursor = Some(0)

\* C3: on a non-empty list of length N, next() with no cursor selects
\* index 0, and with the cursor at i it selects (i + 1) mod N; the items
\* stay as they were and the call does not panic.
C3_NextWraps ==
    (last.event = <<"next">> /\ Len(last.before.list.items) > 0) =>
        LET before == last.before.list.list_state
            N == Len(last.before.list.items)
        IN  /\ pc # "panicked"
            /\ Items = last.before.list.items
            /\ before = None => Cursor = Some(0)
            /\ before # None => Cursor = Some((before[1] + 1) % N)

\* C3 witness: next() at the last index of a three item list.
C3_Witness ==
    /\ last.event = <<"next">>
    /\ Len(Items) = 3
    /\ last.before.list.list_state = Some(2)
    /\ Cursor = Some(0)

\* C4: on a non-empty list of length N, previous() with no cursor selects
\* index 0, and with the cursor at i it selects (i - 1 + N) mod N; the
\* items stay as they were and the call does not panic.
C4_PreviousWraps ==
    (last.event = <<"previous">> /\ Len(last.before.list.items) > 0) =>
        LET before == last.before.list.list_state
            N == Len(last.before.list.items)
        IN  /\ pc # "panicked"
            /\ Items = last.before.list.items
            /\ before = None => Cursor = Some(0)
            /\ before # None => Cursor = Some((before[1] - 1 + N) % N)

\* C4 witness: previous() at index 0 of a three item list.
C4_Witness ==
    /\ last.event = <<"previous">>
    /\ Len(Items) = 3
    /\ last.before.list.list_state = Some(0)
    /\ Cursor = Some(2)

\* C5: Left in Normal mode leaves the cursor unset whatever it was, and
\* changes neither the items nor the mode; unselect() applied to a list it has
\* already been applied to changes nothing.
C5_UnselectClears ==
    /\ Dispatched(Left, "Normal") =>
        /\ pc = "tick"
        /\ Cursor = None
        /\ Items = last.before.list.items
        /\ app.mode = "Normal"
        /\ unselect(app.list) = app.list
    /\ unselect(app.list).list_state = None
    /\ unselect(unselect(app.list)) = unselect(app.list)

\* C5 witness: Left was pressed with the cursor on the second item.
C5_Witness ==
    /\ Dispatched(Left, "Normal")
    /\ last.before.list.list_state = Some(1)
    /\ Cursor = None

\* C6: in Update mode with the cursor at index i, a character key appends
\* exactly that character to item i and changes nothing else: the other
\* items, the number of items, the cursor and the mode stay.
C6_CharAppends ==
    \A c \in Chars :
        (Dispatched(Char(c), "Update") /\ last.before.list.list_state # None) =>
            LET i == last.before.list.list_state[1] + 1
                old == last.before.list.items
            IN  /\ pc = "tick"
                /\ Len(Items) = Len(old)
                /\ Items[i] = old[i] \o <<c>>
                /\ \A j \in 1..Len(old) : j # i => Items[j] = old[j]
                /\ Cursor = last.before.list.list_state
                /\ app.mode = "Update"

\* C6 witness: "!" was typed onto the second seed item.
C6_Witness ==
    /\ Dispatched(Char("!"), "Update")
    /\ last.before.list.list_state = Some(1)
    /\ Items[2] = s2 \o <<"!">>

\* C7: in Update mode Enter sets the mode to Normal and leaves every item
\* and the cursor as they were.
C7_EnterLeavesUpdate ==
    Dispatched(Enter, "Update") =>
        /\ pc = "tick"
        /\ app.mode = "Normal"
        /\ app.list = last.before.list

\* C7 witness: Enter ended an edit in which a character was typed.
C7_Witness ==
    /\ Dispatched(Enter, "Update")
    /\ app.mode = "Normal"
    /\ Cursor # None
    /\ Pushed(app) > 0

\* C8: in Normal mode 'a' sets the mode to Add and changes nothing else, and
\* the loop goes on; 'e' with a cursor set sets the mode to Update and
\* changes nothing else.
C8_ModeKeys ==
    /\ Dispatched(Char("a"), "Normal") =>
        /\ pc = "tick"
        /\ app = [last.before EXCEPT !.mode = "Add"]
    /\ (Dispatched(Char("e"), "Normal") /\ last.before.list.list_state # None) =>
        /\ pc = "tick"
        /\ app = [last.before EXCEPT !.mode = "Update"]

\* C8 witness: 'e' was pressed in Normal mode with a cursor set.
C8_Witness ==
    /\ Dispatched(Char("e"), "Normal")
    /\ last.before.list.list_state = Some(2)
    /\ app.mode = "Update"

\* run_app has ended: it returned, or the process panicked inside it.
LoopEnded == result # Pending \/ pc = "panicked"

\* C9: run_app returns Ok only on 'q' in Normal mode, with app as it was
\* before the key; 'q' in any other mode never ends the loop.
C9_QuitOnlyInNormal ==
    /\ result = Ok =>
        /\ Dispatched(Char("q"), "Normal")
        /\ app = last.before
    /\ (last.event = Key(Char("q")) /\ last.before.mode # "Normal") => ~LoopEnded

\* C10: once the mode is Add no step changes mode, items or cursor, and
\* run_app never returns Ok.
C10_AddAbsorbing ==
    [][app.mode = "Add" => (app' = app /\ result' # Ok)]_vars

\* C10 witness: 'q' was pressed in Add mode and the loop went on in Add mode.
C10_Witness ==
    /\ Dispatched(Char("q"), "Add")
    /\ app.mode = "Add"
    /\ pc = "tick"

\* C11: the mode is never Delete.
C11_NeverDelete == app.mode # "Delete"

\* C11 witness: every key that changes the mode has been used: the mode went
\* from Normal to Update and, with Enter, back to Normal.
C11_Witness ==
    /\ Dispatched(Enter, "Update")
    /\ edit.typed # <<>>
    /\ app.mode = "Normal"
    /\ pc = "tick"

\* C12: from the seed items, the keys Down, Down, 'e', '!', Enter leave
\* item 1 as "Finish a project!", items 0 and 2 as their seeds, the cursor at
\* index 1 and the mode Normal.
C12_RoundTrip ==
    keys = RoundTrip =>
        /\ pc # "panicked"
        /\ Items = <<s1, s2 \o <<"!">>, s3>>
        /\ Cursor = Some(1)
        /\ app.mode = "Normal"

\* C12 witness: the five keys have been dispatched, the last of them just now.
C12_Witness ==
    /\ keys = RoundTrip
    /\ last.event = Key(Enter)
    /\ pc = "tick"

\* C13: the timeout handed to the poll is max(0, tick_rate - elapsed): never
\* negative, never more than the tick interval, and zero once more than a tick
\* has elapsed.
C13_TimeoutClamped ==
    pc = "poll" =>
        /\ timeout >= 0
        /\ timeout <= TickRate
        /\ elapsed <= TickRate => timeout + elapsed = TickRate
        /\ elapsed > TickRate => timeout = 0

\* C13 witness: a poll with more than a tick elapsed since the last tick mark.
C13_Witness ==
    /\ pc = "poll"
    /\ elapsed > TickRate
    /\ timeout = 0

LoopPcs == {"draw", "poll", "read", "tick"}
LoopOps == {Some("draw"), Some("poll"), Some("read")}
Restores == {"disable_raw_mode", "leave_alternate_screen", "show_cursor"}

\* C14: when a draw, a poll or an event read fails, run_app returns that
\* error at once: the failing step changes nothing of app, frame or the
\* dispatch history, and once run_app has returned no step draws, polls,
\* reads or changes the loop's state again.
C14_ErrorEndsLoop ==
    /\ [](io_error \in LoopOps => (result = Err(io_error[1]) /\ pc \notin LoopPcs))
    /\ [][/\ (io_error' # io_error /\ io_error' \in LoopOps) =>
                (app' = app /\ frame' = frame /\ last' = last /\ keys' = keys)
          /\ result # Pending =>
                /\ pc' \notin LoopPcs
                /\ result' = result
                /\ <<app, frame, last, keys, elapsed, timeout>>' =
                   <<app, frame, last, keys, elapsed, timeout>>]_vars

\* C14 witness: the poll failed after an edit, and run_app has returned its error.
C14_Witness ==
    /\ io_error = Some("poll")
    /\ result = Err("poll")
    /\ pc = "disable_raw_mode"
    /\ Pushed(app) > 0

\* main has returned, or the process has panicked.
Exited == pc \in {"exit", "panicked"}

\* C15: on every exit path after raw mode was enabled, all three restore
\* steps have been run before the process exits.
C15_RestoredOnExit ==
    (Exited /\ io_error # Some("enable_raw_mode")) => term.restored = Restores

\* C16: when run_app ended with an error, main runs the whole teardown and
\* returns that error; when run_app returned Ok and the teardown succeeded,
\* main returns Ok.
C16_OriginalError ==
    /\ (pc = "exit" /\ result \notin {Pending, Ok}) =>
            (term.restored = Restores /\ exit = result)
    /\ (pc = "exit" /\ result = Ok /\ io_error = None) => exit = Ok

\* s is t, or t cut short.
IsPrefix(s, t) == Len(s) <= Len(t) /\ SubSeq(t, 1, Len(s)) = s

\* C17: the list always holds the three seed items in their order, each
\* followed by the characters appended to it; no step shortens or replaces
\* an item's text, only a character key in Update mode changes one, and
\* Left, Up and Down in Normal mode change neither the mode nor the items.
C17_ItemsOnlyGrow ==
    /\ [](/\ Len(Items) = Len(list_vector)
          /\ \A i \in 1..Len(list_vector) : IsPrefix(list_vector[i], Items[i]))
    /\ [][/\ Len(Items') = Len(Items)
          /\ \A i \in 1..Len(Items) : IsPrefix(Items[i], Items'[i])
          /\ Items' # Items =>
                /\ pc = "read"
                /\ app.mode = "Update"
                /\ last'.event[1] = "Key"
                /\ last'.event[2][1] = "Char"
          /\ (pc = "read" /\ app.mode = "Normal"
                /\ last'.event \in {Key(Left), Key(Up), Key(Down)}) =>
                /\ app'.mode = "Normal"
                /\ Items' = Items]_vars

\* C17 witness: Down moved the cursor in Normal mode after two characters
\* had been appended.
C17_Witness ==
    /\ Dispatched(Down, "Normal")
    /\ Pushed(app) = 2
    /\ Cursor # last.before.list.list_state
    /\ Items = last.before.list.items

\* C18: in Update mode no key changes the cursor, and a key that is neither
\* a character nor Enter changes nothing at all; so from the step into Update
\* mode on, the items are those of that moment with the characters typed
\* since appended, in the order typed, to the selected item.
C18_UpdateKeepsCursor ==
    /\ (last.event[1] = "Key" /\ last.before.mode = "Update") =>
        /\ Cursor = last.before.list.list_state
        /\ (last.event[2][1] # "Char" /\ last.event[2] # Enter) =>
                (app = last.before /\ pc = "tick")
    /\ (edit # NoEdit /\ Cursor # None) =>
        Items = [edit.items EXCEPT ![Cursor[1] + 1] = @ \o edit.typed]

\* C18 witness: Backspace was pressed in an edit of the second item in which
\* two different characters had been typed.
C18_Witness ==
    /\ Dispatched(Backspace, "Update")
    /\ Cursor = Some(1)
    /\ Len(edit.typed) = 2
    /\ edit.typed[1] # edit.typed[2]

\* C19: an iteration whose poll times out, or whose event is not a key
\* event, changes neither mode, items nor cursor and does not end the loop;
\* an iteration reads at most one event, and the state it leaves is drawn
\* before the next poll.
C19_IdleIteration ==
    /\ [](pc \in {"poll", "read"} => (frame = ui(app) /\ last = NoDispatch))
    /\ [][/\ (pc = "poll" /\ pc' = "tick") =>
                (app' = app /\ last' = NoDispatch /\ result' = Pending)
          /\ (pc = "read" /\ last' = NoDispatch /\ io_error' = io_error) =>
                (app' = app /\ pc' = "tick" /\ result' = Pending)
          /\ pc = "read" => pc' \notin {"poll", "read"}
          /\ pc = "tick" => pc' = "draw"]_vars

\* C19 witness: an iteration in Update mode ended with no key dispatched.
C19_Witness ==
    /\ pc = "tick"
    /\ last = NoDispatch
    /\ io_error = None
    /\ app.mode = "Update"
    /\ frame = ui(app)

\* C20: on a list with no items next() and previous() do not panic and do
\* not leave the cursor at an index outside the list.
C20_EmptyGuarded ==
    (last.event \in {<<"next">>, <<"previous">>} /\ Len(last.before.list.items) = 0) =>
        /\ pc # "panicked"
        /\ Cursor = None \/ Cursor[1] < Len(Items)

=============================================================================
